---- MODULE Spec2Model ----
(***************************************************************************)
(* A model of Cat Jump (src/CatJump.py): the player physics and collision  *)
(* step Player.update, the difficulty scaler get_difficulty_modifiers, the *)
(* platform generator of main, and the high-score persistence.             *)
(*                                                                         *)
(* Arithmetic.  Python floats are modelled as exact decimal fixed point:   *)
(*   - multipliers (gravity_mult, jump_mult, gap_mult) in thousandths,     *)
(*   - velocities in thousandths of a pixel per tick,                      *)
(*   - rect coordinates in whole pixels (a pygame Rect stores integers and *)
(*     truncates a float assigned to it toward zero).                      *)
(* Every product the code forms is exact at this scale.                    *)
(***************************************************************************)
EXTENDS Integers, Sequences, FiniteSets, TLC

VARIABLES
  mode,                \* which part of the program this behaviour exercises
  player,              \* the Player sprite's fields
  platforms,           \* the platforms sprite group, in insertion order
  orbs,                \* the orbs sprite group, in insertion order
  score,               \* main's score
  mods,                \* what get_difficulty_modifiers last returned, and for which score
  game_over,           \* what the last Player.update returned
  ticks,               \* calls of Player.update made so far (bounded)
  last,                \* record of the last Player.update call
  last_x,              \* main's last_x
  highest_platform_y,  \* main's highest_platform_y
  platform_height,     \* main's platform_height
  current_difficulty,  \* main's current_difficulty
  generated,           \* number of platforms generated in this run
  batch_left,          \* iterations left in the running batch loop
  gen_prev,            \* where the platform generated before the newest one is
  hs_file,             \* high_score.json on disk
  hs_last,             \* record of the last persistence call
  phase,               \* where main is: start screen, a run's frame loop, a menu, or gone
  high_score,          \* main's high_score
  highest_player_y,    \* main's highest_player_y
  camera_y,            \* main's camera_y
  frames,              \* frames of this run taken so far (bounded)
  runs,                \* runs started so far (bounded)
  pause_frames,        \* passes of the pause menu's loop in this pause (bounded)
  picked,              \* record of the last frame's orb collection
  over                 \* record of the last game over

playVars == <<player, platforms, orbs, score, mods, game_over, ticks, last>>
genVars == <<last_x, highest_platform_y, platform_height, current_difficulty, generated, batch_left, gen_prev>>
hsVars == <<hs_file, hs_last>>
loopVars == <<phase, high_score, highest_player_y, camera_y, frames, runs, pause_frames, picked, over>>
vars == <<mode, playVars, genVars, hsVars, loopVars>>

----------------------------------------------------------------------------
(* GameSettings                                                            *)

SCREEN_WIDTH == 1024
SCREEN_HEIGHT == 768
PLAYER_WIDTH == 90
PLAYER_HEIGHT == 90
PLAYER_SPEED == 7
\* GRAVITY = 0.4, in tenths
GRAVITY_TENTHS == 4
PLAYER_JUMP == -19
SCORE_PER_DIFFICULTY == 500
\* 1.0 as a multiplier; 1 pixel as a velocity
ONE == 1000
\* Platform.__init__: width=220, and the landing band Rect(x, y, width, 15)
PLATFORM_WIDTH == 220
PLATFORM_RECT_HEIGHT == 15
\* Player.update: fall_time > 210, rect.top > SCREEN_HEIGHT + 200
FALL_TIME_LIMIT == 210
FALL_MARGIN == 200
\* Orb.UPGRADES: duration of every timed upgrade
UPGRADE_DURATION == 900

TimedUpgrades == {"Jump Boost", "Speed Boost", "Invincibility", "Gravity Reduction"}
KeyStates == {"none", "left", "right", "both"}

----------------------------------------------------------------------------
(* Arithmetic helpers                                                      *)

Abs(a) == IF a < 0 THEN -a ELSE a
Max(a, b) == IF a >= b THEN a ELSE b

\* int(a / b) for b > 0: truncation toward zero (Python int(), pygame Rect)
TruncDiv(a, b) == IF a >= 0 THEN a \div b ELSE -((-a) \div b)

----------------------------------------------------------------------------
(* get_difficulty_modifiers                                                *)

JumpMultFloorless(level) == ONE - level * 20
\* (variant: the level is added instead of subtracted)
JumpMultRising(level) == Max(850, ONE + level * 20)
JumpMultOf(level) == Max(850, ONE - level * 20)

get_difficulty_modifiers(s) ==
  LET difficulty_level == s \div SCORE_PER_DIFFICULTY
  IN  [gravity_mult |-> ONE + difficulty_level * 50,
       jump_mult |-> JumpMultOf(difficulty_level),
       gap_mult |-> ONE + difficulty_level * 30,
       difficulty_level |-> difficulty_level]

\* The modifiers in force before the first call: update's default arguments
NoMods == [score |-> -1, gravity_mult |-> ONE, jump_mult |-> ONE, gap_mult |-> ONE, difficulty_level |-> 0]

\* main, line 554
Modifiers(s) ==
  LET m == get_difficulty_modifiers(s)
  IN  [score |-> s, gravity_mult |-> m.gravity_mult, jump_mult |-> m.jump_mult,
       gap_mult |-> m.gap_mult, difficulty_level |-> m.difficulty_level]

----------------------------------------------------------------------------
(* Rect geometry                                                           *)

Bottom(p) == p.rect_y + PLAYER_HEIGHT
Right(p) == p.rect_x + PLAYER_WIDTH
PlatBottom(plat) == plat.y + PLATFORM_RECT_HEIGHT

\* pygame.Rect.colliderect of the player's rect and a platform's landing band
CollideRect(p, plat) ==
  /\ p.rect_x < plat.x + plat.w
  /\ plat.x < p.rect_x + PLAYER_WIDTH
  /\ p.rect_y < plat.y + PLATFORM_RECT_HEIGHT
  /\ plat.y < p.rect_y + PLAYER_HEIGHT

\* pygame.sprite.spritecollide(self, platforms, False): the indices of the
\* colliding platforms, in the group's order
spritecollide(p, plats) ==
  SelectSeq([i \in 1..Len(plats) |-> i], LAMBDA i : CollideRect(p, plats[i]))

Platform(x, y, w, breakable, deadly) ==
  [x |-> x, y |-> y, w |-> w, breakable |-> breakable, deadly |-> deadly,
   will_break |-> FALSE]

----------------------------------------------------------------------------
(* Player                                                                  *)

NewPlayer(x, y) ==
  [rect_x |-> x, rect_y |-> y, vel_x |-> 0, vel_y |-> 0, on_ground |-> TRUE,
   fall_time |-> 0, active_upgrades |-> << >>, shield_active |-> FALSE]

Has(p, name) == name \in DOMAIN p.active_upgrades

handle_input(p, keys) ==
  LET v1 == IF keys \in {"left", "both"} THEN -PLAYER_SPEED ELSE 0
      v2 == IF keys \in {"right", "both"} THEN PLAYER_SPEED ELSE v1
  IN  [p EXCEPT !.vel_x = v2]

jump(p, jump_mult) ==
  [p EXCEPT !.vel_y = PLAYER_JUMP * jump_mult, !.fall_time = 0]

\* update, lines 127-128: Gravity Reduction halves gravity_mult
EffectiveGravityMult(p, gravity_mult) ==
  IF Has(p, "Gravity Reduction") THEN gravity_mult \div 2 ELSE gravity_mult

\* (variant: the boost is looked up after the timers have been decreased)
EffectiveJumpMultAfterExpiry(p, jump_mult) ==
  IF "Jump Boost" \in {n \in DOMAIN p.active_upgrades : p.active_upgrades[n] > 1}
  THEN (jump_mult * 13) \div 10 ELSE jump_mult

\* update, lines 131-132: Jump Boost multiplies jump_mult by 1.3
EffectiveJumpMult(p, jump_mult) ==
  IF Has(p, "Jump Boost") THEN (jump_mult * 13) \div 10 ELSE jump_mult

\* update, lines 135-139: Speed Boost replaces a non-zero vel_x
ApplySpeedBoost(p) ==
  IF ~Has(p, "Speed Boost") THEN p
  ELSE IF p.vel_x > 0 THEN [p EXCEPT !.vel_x = TruncDiv(PLAYER_SPEED * 15, 10)]
  ELSE IF p.vel_x < 0 THEN [p EXCEPT !.vel_x = TruncDiv(-PLAYER_SPEED * 15, 10)]
  ELSE p

\* (variant: an entry is deleted only once it is below zero)
ExpiredLate(remaining) == remaining < 0

\* update, lines 142-148: every timer goes down by one; those at <= 0 are deleted
Expired(remaining) == remaining <= 0

DecreaseTimers(u) ==
  LET dec == [n \in DOMAIN u |-> u[n] - 1]
      keep == {n \in DOMAIN u : ~Expired(dec[n])}
  IN  [n \in keep |-> dec[n]]

\* update, lines 151-157: gravity, then the move, then on_ground = False
Integrate(p, gravity_mult) ==
  LET vy == p.vel_y + (GRAVITY_TENTHS * gravity_mult) \div 10
  IN  [p EXCEPT !.vel_y = vy,
                !.rect_x = p.rect_x + p.vel_x,
                !.rect_y = TruncDiv(p.rect_y * ONE + vy, ONE),
                !.on_ground = FALSE]

\* (variant: a player standing still in the air is looked at as well)
DescendingOrStill(p) == p.vel_y >= 0

\* update, line 160: collisions are looked at only when falling
Descending(p) == p.vel_y > 0

\* update, line 165: landing only when approaching from above
FromAbove(p, plat) == Bottom(p) <= PlatBottom(plat)

\* rect.bottom = platform.rect.top; self.jump(jump_mult); on_ground = True
Bounce(p, plat, jump_mult) ==
  [jump([p EXCEPT !.rect_y = plat.y - PLAYER_HEIGHT], jump_mult) EXCEPT !.on_ground = TRUE]

\* (variant: the shield is not used up)
ShieldLandingKeepsShield(p, plat, jump_mult) == Bounce(p, plat, jump_mult)

\* update, lines 169-175
ShieldLanding(p, plat, jump_mult) ==
  Bounce([p EXCEPT !.shield_active = FALSE], plat, jump_mult)

\* (variant: the landing uses up the Invincibility)
InvincibleLandingConsuming(p, plat, jump_mult) ==
  Bounce([p EXCEPT !.active_upgrades =
            [n \in DOMAIN p.active_upgrades \ {"Invincibility"} |-> p.active_upgrades[n]]],
         plat, jump_mult)

\* update, lines 176-181
InvincibleLanding(p, plat, jump_mult) == Bounce(p, plat, jump_mult)

\* (variant: the death is signalled after the fall timer has been advanced)
DeadlyDeathAfterFallTrack(p) == [p EXCEPT !.fall_time = p.fall_time + 1]

\* update, lines 182-183: return True
DeadlyDeath(p) == p

\* update, lines 184-192
MarkBreak(plat) == [plat EXCEPT !.will_break = plat.breakable]

\* What the resolution of one qualifying platform gives
Resolution(p, plats, k, jump_mult, n) ==
  LET plat == plats[k]
  IN  IF plat.deadly
      THEN IF p.shield_active
           THEN [self |-> ShieldLanding(p, plat, jump_mult), platforms |-> plats,
                 returned |-> FALSE, outcome |-> "shield", target |-> k, evaluated |-> n]
           ELSE IF Has(p, "Invincibility")
           THEN [self |-> InvincibleLanding(p, plat, jump_mult), platforms |-> plats,
                 returned |-> FALSE, outcome |-> "invincible", target |-> k, evaluated |-> n]
           ELSE [self |-> DeadlyDeath(p), platforms |-> plats,
                 returned |-> TRUE, outcome |-> "deadly_death", target |-> k, evaluated |-> n]
      ELSE [self |-> Bounce(p, plat, jump_mult),
            platforms |-> [plats EXCEPT ![k] = MarkBreak(plat)],
            returned |-> FALSE, outcome |-> "landed", target |-> k, evaluated |-> n]

\* (variant: the loop goes on after a landing, without break)
RECURSIVE ForHitsNoBreak(_, _, _, _, _)
ForHitsNoBreak(p, plats, hits, i, jump_mult) ==
  IF i > Len(hits)
  THEN [self |-> p, platforms |-> plats, returned |-> FALSE, outcome |-> "none",
        target |-> 0, evaluated |-> Len(hits)]
  ELSE IF FromAbove(p, plats[hits[i]])
       THEN LET r == Resolution(p, plats, hits[i], jump_mult, i)
                rest == ForHitsNoBreak(r.self, r.platforms, hits, i + 1, jump_mult)
            IN  IF r.returned THEN r
                ELSE IF rest.outcome = "none" THEN [r EXCEPT !.evaluated = Len(hits)]
                ELSE rest
       ELSE ForHitsNoBreak(p, plats, hits, i + 1, jump_mult)

\* update, lines 163-192: the loop over hits, from position i on
RECURSIVE ForHits(_, _, _, _, _)
ForHits(p, plats, hits, i, jump_mult) ==
  IF i > Len(hits)
  THEN [self |-> p, platforms |-> plats, returned |-> FALSE, outcome |-> "none",
        target |-> 0, evaluated |-> Len(hits)]
  ELSE IF FromAbove(p, plats[hits[i]])
       THEN Resolution(p, plats, hits[i], jump_mult, i)
       ELSE ForHits(p, plats, hits, i + 1, jump_mult)

\* update, lines 160-192
Collide(p, plats, jump_mult) ==
  IF Descending(p)
  THEN ForHits(p, plats, spritecollide(p, plats), 1, jump_mult)
  ELSE [self |-> p, platforms |-> plats, returned |-> FALSE, outcome |-> "none",
        target |-> 0, evaluated |-> 0]

\* (variant: only the left edge is enforced)
ClampLeftOnly(p) == IF p.rect_x < 0 THEN [p EXCEPT !.rect_x = 0] ELSE p

\* update, lines 195-198
ClampHorizontal(p) ==
  LET a == IF p.rect_x < 0 THEN [p EXCEPT !.rect_x = 0] ELSE p
  IN  IF Right(a) > SCREEN_WIDTH THEN [a EXCEPT !.rect_x = SCREEN_WIDTH - PLAYER_WIDTH] ELSE a

\* update, lines 201-202
TrackFall(p) == IF ~p.on_ground THEN [p EXCEPT !.fall_time = p.fall_time + 1] ELSE p

\* (variant: the limit is one tick later)
FellTooLongLate(p) == p.fall_time > FALL_TIME_LIMIT + 1

\* (variant: the player dies as soon as it is below the screen height)
FellOffScreenAtEdge(p) == p.rect_y > SCREEN_HEIGHT

\* update, lines 216-221
FellTooLong(p) == p.fall_time > FALL_TIME_LIMIT

FellOffScreen(p) == p.rect_y > SCREEN_HEIGHT + FALL_MARGIN

\* Player.update(platforms, gravity_mult, jump_mult) on a player whose vel_x
\* handle_input has set.  The result carries the player, the platforms, the
\* return value, and what the collision step did.
update(p, plats, gravity_mult, jump_mult) ==
  LET gm == EffectiveGravityMult(p, gravity_mult)
      jm == EffectiveJumpMult(p, jump_mult)
      boosted == ApplySpeedBoost(p)
      timed == [boosted EXCEPT !.active_upgrades = DecreaseTimers(p.active_upgrades)]
      mid == Integrate(timed, gm)
      col == Collide(mid, plats, jm)
      done == TrackFall(ClampHorizontal(col.self))
  IN  IF col.returned
      THEN [self |-> col.self, platforms |-> col.platforms, died |-> TRUE,
            mid |-> mid, jump_mult |-> jm, outcome |-> col.outcome,
            target |-> col.target, evaluated |-> col.evaluated]
      ELSE [self |-> done, platforms |-> col.platforms,
            died |-> FellTooLong(done) \/ FellOffScreen(done),
            mid |-> mid, jump_mult |-> jm, outcome |-> col.outcome,
            target |-> col.target, evaluated |-> col.evaluated]

----------------------------------------------------------------------------
(* load_high_score and save_high_score                                     *)
(*                                                                         *)
(* high_score.json is a sequence of JSON tokens (white space left out).    *)
(* json.dump writes an integer as its decimal digits and json.load reads   *)
(* them back, so the round trip goes through the text.                     *)

KEY == "\"high_score\""
OTHER_KEY == "\"other\""
StringToks == {KEY, OTHER_KEY}
DigitToks == <<"0", "1", "2", "3", "4", "5", "6", "7", "8", "9">>
IsDigit(t) == \E d \in 1..10 : DigitToks[d] = t
DigitVal(t) == (CHOOSE d \in 1..10 : DigitToks[d] = t) - 1

\* JSON values: an integer, or one of the other kinds
JInt(n) == [t |-> "int", v |-> n]
JNull == [t |-> "null", v |-> 0]
JStr == [t |-> "str", v |-> 0]
JList == [t |-> "list", v |-> 0]

\* json.dump of a non-negative integer: its decimal digits
RECURSIVE Digits(_)
Digits(n) == IF n < 10 THEN <<DigitToks[n + 1]>> ELSE Append(Digits(n \div 10), DigitToks[(n % 10) + 1])

\* (variant: the file is written under another key than the one read)
DumpUnderOtherKey(n) == <<"{", OTHER_KEY, ":">> \o Digits(n) \o <<"}">>

\* save_high_score, line 71: json.dump({'high_score': score}, f)
DumpHighScore(n) == <<"{", KEY, ":">> \o Digits(n) \o <<"}">>

\* json.load of a number: digits with no leading zero
IsNumber(toks) ==
  /\ Len(toks) >= 1
  /\ \A i \in 1..Len(toks) : IsDigit(toks[i])
  /\ Len(toks) = 1 \/ toks[1] # "0"

RECURSIVE NumVal(_)
NumVal(toks) ==
  IF toks = << >> THEN 0
  ELSE 10 * NumVal(SubSeq(toks, 1, Len(toks) - 1)) + DigitVal(toks[Len(toks)])

\* json.load of a value that is not an object
ParseScalar(toks) ==
  IF IsNumber(toks) THEN [ok |-> TRUE, obj |-> FALSE, key |-> "", val |-> JInt(NumVal(toks))]
  ELSE IF toks = <<"null">> THEN [ok |-> TRUE, obj |-> FALSE, key |-> "", val |-> JNull]
  ELSE IF Len(toks) = 1 /\ toks[1] \in StringToks THEN [ok |-> TRUE, obj |-> FALSE, key |-> "", val |-> JStr]
  ELSE IF toks = <<"[", "]">> THEN [ok |-> TRUE, obj |-> FALSE, key |-> "", val |-> JList]
  ELSE [ok |-> FALSE, obj |-> FALSE, key |-> "", val |-> JNull]

\* json.load: ok is false for a JSONDecodeError; an object has no member or
\* one member key: val
JsonLoad(toks) ==
  IF toks = <<"{", "}">> THEN [ok |-> TRUE, obj |-> TRUE, key |-> "", val |-> JNull]
  ELSE IF /\ Len(toks) >= 5
          /\ toks[1] = "{"
          /\ toks[2] \in StringToks
          /\ toks[3] = ":"
          /\ toks[Len(toks)] = "}"
          /\ ParseScalar(SubSeq(toks, 4, Len(toks) - 1)).ok
       THEN [ok |-> TRUE, obj |-> TRUE, key |-> toks[2],
             val |-> ParseScalar(SubSeq(toks, 4, Len(toks) - 1)).val]
       ELSE ParseScalar(toks)

NoFile == [exists |-> FALSE, readable |-> TRUE, text |-> << >>]

\* load_high_score: what it returns, or the exception that leaves it
load_high_score(file) ==
  IF ~file.exists THEN [raised |-> "none", ret |-> JInt(0)]
  ELSE IF ~file.readable THEN [raised |-> "none", ret |-> JInt(0)]
  ELSE LET data == JsonLoad(file.text)
       IN  IF ~data.ok THEN [raised |-> "none", ret |-> JInt(0)]
           ELSE IF ~data.obj THEN [raised |-> "AttributeError", ret |-> JInt(0)]
           ELSE IF data.key = KEY THEN [raised |-> "none", ret |-> data.val]
           ELSE [raised |-> "none", ret |-> JInt(0)]

\* save_high_score: the file it leaves.  open(..., 'w') may fail and leave the
\* file alone; once open, the file is empty, and a write that fails leaves the
\* first `written` tokens.  Every IOError is swallowed.
save_high_score(file, n, open_ok, written) ==
  IF ~open_ok THEN file
  ELSE [exists |-> TRUE,
        readable |-> IF file.exists THEN file.readable ELSE TRUE,
        text |-> SubSeq(DumpHighScore(n), 1, written)]

NoOp ==
  [op |-> "none", arg |-> 0, wrote |-> FALSE, raised |-> "none", ret |-> JInt(0),
   before |-> "none", before_arg |-> 0, before_wrote |-> FALSE]

----------------------------------------------------------------------------
(* Player.update applied to states a run can be in                         *)

NoCall ==
  [called |-> FALSE, pre |-> NewPlayer(0, 0), pre_platforms |-> << >>,
   mid |-> NewPlayer(0, 0), jump_mult |-> ONE, outcome |-> "none", target |-> 0,
   evaluated |-> 0, died |-> FALSE]

\* Bounds of the checked instances
MaxTicks == 2

\* Scores of level 0 (at the start, and once the seeded platforms at the
\* height cap are reached), of level 3 and of level 8 (jump_mult 1.0, 0.94
\* and the floor 0.85)
ScoreChoices == {0, 40, 1600, 4000}

\* Remaining durations: about to expire, one tick more, and a long one
UpgradeChoices ==
  { << >>,
    ("Jump Boost" :> 1),
    ("Jump Boost" :> 600) @@ ("Gravity Reduction" :> 600),
    ("Invincibility" :> 1) @@ ("Gravity Reduction" :> 2),
    ("Invincibility" :> 2) @@ ("Speed Boost" :> 600) }

\* Ticks since the last bounce
FlightChoices == {0, 47, 60, 94, 210}

\* Where the player's bottom edge is, relative to the top of the platform
\* aimed at, after the next tick's move
AimChoices == {-20, 1, 15, 16, 40}

Ground == Platform(0, SCREEN_HEIGHT - 100, SCREEN_WIDTH, FALSE, FALSE)

\* Where a platform is that a player with score s can stand on: the player
\* has been as high as SCREEN_HEIGHT // 2 - 10 * s, and platforms are taken
\* out of the group once they are far below the camera
Reached(s) == SCREEN_HEIGHT \div 2 - 10 * s + 200

\* Platform layouts in group (generation) order for a score, the height
\* aimed at, and the player's x positions tried.  At score 0 the ground; at
\* score 40 seeded platforms at the height cap, where two can overlap; at
\* the higher scores platforms of batches made at level 3 or more, where
\* consecutive platforms are at least 60 apart in height and may be deadly.
Layouts(s) ==
  IF s = 0 THEN
    { [plats |-> <<Ground>>, base |-> SCREEN_HEIGHT - 100, xs |-> {3, 931}] }
  ELSE IF get_difficulty_modifiers(s).difficulty_level < 3 THEN
    { [plats |-> <<Platform(300, 100, PLATFORM_WIDTH, FALSE, FALSE),
                   Platform(450, 100, PLATFORM_WIDTH, TRUE, FALSE)>>,
       base |-> 100, xs |-> {500}],
      [plats |-> <<Platform(450, 100, PLATFORM_WIDTH, TRUE, FALSE)>>,
       base |-> 100, xs |-> {500}] }
  ELSE
    { [plats |-> <<Platform(450, Reached(s), PLATFORM_WIDTH, FALSE, FALSE)>>,
       base |-> Reached(s), xs |-> {500}],
      [plats |-> <<Platform(450, Reached(s), PLATFORM_WIDTH, FALSE, TRUE),
                   Platform(300, Reached(s) - 60, PLATFORM_WIDTH, FALSE, FALSE)>>,
       base |-> Reached(s), xs |-> {500}],
      [plats |-> <<Platform(450, Reached(s), PLATFORM_WIDTH, TRUE, TRUE)>>,
       base |-> Reached(s), xs |-> {500}],
      [plats |-> <<Platform(450, Reached(s), PLATFORM_WIDTH, TRUE, FALSE),
                   Platform(300, Reached(s) - 60, PLATFORM_WIDTH, FALSE, TRUE)>>,
       base |-> Reached(s), xs |-> {500}] }

\* The player k ticks after a bounce at the given score, holding upgrades u
InFlight(s, u, k, x, y, shield) ==
  LET m == get_difficulty_modifiers(s)
      p0 == [NewPlayer(x, y) EXCEPT !.active_upgrades = u, !.shield_active = shield]
      g == (GRAVITY_TENTHS * EffectiveGravityMult(p0, m.gravity_mult)) \div 10
  IN  [p0 EXCEPT !.vel_y = PLAYER_JUMP * EffectiveJumpMult(p0, m.jump_mult) + k * g,
                 !.fall_time = k,
                 !.on_ground = (k = 0)]

\* The rect.y from which the next move ends with the bottom edge at base + aim
AimedY(s, u, k, base, aim) ==
  LET p == InFlight(s, u, k, 0, 0, FALSE)
      m == get_difficulty_modifiers(s)
      g == (GRAVITY_TENTHS * EffectiveGravityMult(p, m.gravity_mult)) \div 10
  IN  base + aim - PLAYER_HEIGHT - TruncDiv(p.vel_y + g, ONE)

NoPlatform == [set |-> FALSE, x |-> 0, y |-> 0]

GenStart ==
  /\ last_x = SCREEN_WIDTH \div 2
  /\ highest_platform_y = SCREEN_HEIGHT - 200
  /\ platform_height = SCREEN_HEIGHT - 200
  /\ current_difficulty = 0
  /\ generated = 0
  /\ batch_left = 0
  /\ gen_prev = NoPlatform

HsStart ==
  /\ hs_file = NoFile
  /\ hs_last = NoOp

NoPick == [pre |-> NewPlayer(0, 0), kinds |-> << >>, pre_orbs |-> << >>]
NoOver == [set |-> FALSE, h |-> 0, s |-> 0, attempted |-> FALSE, wrote |-> FALSE,
           restart |-> FALSE]

\* main before the first frame of a run (lines 465-471), the record variables empty
LoopStart ==
  /\ phase = "running"
  /\ high_score = JInt(0)
  /\ highest_player_y = player.rect_y
  /\ camera_y = 0
  /\ frames = 0
  /\ runs = 1
  /\ pause_frames = 0
  /\ picked = NoPick
  /\ over = NoOver

InitUpdate ==
  /\ mode = "update"
  /\ \E s \in ScoreChoices, u \in UpgradeChoices, k \in FlightChoices,
        aim \in AimChoices, shield \in BOOLEAN :
     \E lay \in Layouts(s) :
       /\ \E x \in lay.xs :
            player = InFlight(s, u, k, x, AimedY(s, u, k, lay.base, aim), shield)
       /\ ~FellOffScreen(player)
       /\ platforms = lay.plats
       /\ score = s
  /\ orbs = << >>
  /\ mods = NoMods
  /\ game_over = FALSE
  /\ ticks = 0
  /\ last = NoCall
  /\ GenStart
  /\ HsStart
  /\ LoopStart

\* main, lines 547-557: one frame's input and Player.update
UpdateTick ==
  /\ mode = "update"
  /\ ~game_over
  /\ ticks < MaxTicks
  /\ \E keys \in KeyStates :
       LET m == get_difficulty_modifiers(score)
           p == handle_input(player, keys)
           r == update(p, platforms, m.gravity_mult, m.jump_mult)
       IN  /\ mods' = Modifiers(score)
           /\ player' = r.self
           /\ platforms' = r.platforms
           /\ game_over' = r.died
           /\ last' = [called |-> TRUE, pre |-> p, pre_platforms |-> platforms,
                       mid |-> r.mid, jump_mult |-> r.jump_mult, outcome |-> r.outcome,
                       target |-> r.target, evaluated |-> r.evaluated, died |-> r.died]
  /\ ticks' = ticks + 1
  /\ UNCHANGED <<mode, orbs, score, genVars, hsVars, loopVars>>

NextUpdate == UpdateTick

SpecUpdate == InitUpdate /\ [][NextUpdate]_vars

----------------------------------------------------------------------------
(* Properties of Player.update                                             *)

JumpOutcomes == {"landed", "shield", "invincible"}

\* The hit list of the last call, and the first platform in it the player
\* approaches from above (0 if none)
LastHits == spritecollide(last.mid, last.pre_platforms)
LastQualifying == {i \in 1..Len(LastHits) : Bottom(last.mid) <= last.pre_platforms[LastHits[i]].y + PLATFORM_RECT_HEIGHT}
LastFirstQualifying ==
  IF LastQualifying = {} THEN 0
  ELSE LastHits[CHOOSE i \in LastQualifying : \A j \in LastQualifying : i <= j]

WillBreakFlags(plats) == [i \in 1..Len(plats) |-> plats[i].will_break]

\* C1: in a call of Player.update whose vertical velocity after gravity is
\* <= 0, nothing is resolved whatever overlaps the player: no snap, no jump
\* impulse, shield_active and every will_break flag unchanged, and a death
\* returned can only be a fall death.
C1_NoResolutionUnlessDescending ==
  (last.called /\ last.mid.vel_y <= 0) =>
     /\ last.outcome = "none"
     /\ player.rect_y = last.mid.rect_y
     /\ player.vel_y = last.mid.vel_y
     /\ ~player.on_ground
     /\ player.shield_active = last.pre.shield_active
     /\ platforms = last.pre_platforms
     /\ game_over = (player.fall_time > FALL_TIME_LIMIT \/ player.rect_y > SCREEN_HEIGHT + FALL_MARGIN)

\* a call with velocity exactly 0 after gravity while the player overlaps a
\* platform it is above
C1_Witness ==
  /\ last.called
  /\ last.mid.vel_y = 0
  /\ LastFirstQualifying # 0

\* C2: a landing resolved on a non-deadly platform ends the tick with
\* vel_y = PLAYER_JUMP * jump_mult (the difficulty multiplier, times 1.3 if
\* Jump Boost was active when the tick began), fall_time = 0, on_ground and
\* the player's bottom edge on the platform's top.
C2_LandingBounce ==
  (last.called /\ last.outcome = "landed") =>
     LET jm == get_difficulty_modifiers(score).jump_mult
         jump_mult == IF "Jump Boost" \in DOMAIN last.pre.active_upgrades
                      THEN (jm * 13) \div 10 ELSE jm
     IN  /\ ~last.pre_platforms[last.target].deadly
         /\ player.vel_y = PLAYER_JUMP * jump_mult
         /\ player.fall_time = 0
         /\ player.on_ground
         /\ player.rect_y + PLAYER_HEIGHT = platforms[last.target].y

\* a landing in the very tick in which Jump Boost runs out
C2_Witness ==
  /\ last.called
  /\ last.outcome = "landed"
  /\ "Jump Boost" \in DOMAIN last.pre.active_upgrades
  /\ "Jump Boost" \notin DOMAIN player.active_upgrades

\* C3: a descending player whose landing platform is deadly, with no shield
\* and no Invincibility, dies at once, and the resolution changes nothing:
\* the player is as the move left it (position, velocity, fall_time, shield,
\* upgrades), no will_break flag is set, and the hit list is not looked at
\* beyond the deadly platform.
C3_DeadlyDeathIsPure ==
  (/\ last.called
   /\ last.mid.vel_y > 0
   /\ LastFirstQualifying # 0
   /\ last.pre_platforms[LastFirstQualifying].deadly
   /\ ~last.mid.shield_active
   /\ "Invincibility" \notin DOMAIN last.mid.active_upgrades) =>
     /\ game_over
     /\ last.outcome = "deadly_death"
     /\ player = last.mid
     /\ player.fall_time = last.pre.fall_time
     /\ platforms = last.pre_platforms
     /\ LastHits[last.evaluated] = LastFirstQualifying

\* an unprotected deadly landing with a further platform behind it in the hit
\* list
C3_Witness ==
  /\ last.called
  /\ last.outcome = "deadly_death"
  /\ Len(LastHits) > last.evaluated

\* C4: a shield landing on a deadly platform turns shield_active from true
\* to false, and everything else is what a landing on a Normal platform at
\* the same place gives; with the shield gone and no Invincibility, a deadly
\* landing kills.
C4_ShieldLanding ==
  /\ (last.called /\ last.outcome = "shield") =>
        LET m == get_difficulty_modifiers(score)
            normal_plats == [last.pre_platforms EXCEPT ![last.target].deadly = FALSE,
                                                       ![last.target].breakable = FALSE]
            normal == update(last.pre, normal_plats, m.gravity_mult, m.jump_mult)
        IN  /\ last.pre.shield_active
            /\ ~player.shield_active
            /\ normal.outcome = "landed"
            /\ player = [normal.self EXCEPT !.shield_active = FALSE]
            /\ WillBreakFlags(platforms) = WillBreakFlags(normal.platforms)
            /\ game_over = normal.died
  /\ (/\ last.called
      /\ last.target # 0
      /\ last.pre_platforms[last.target].deadly
      /\ ~last.pre.shield_active
      /\ "Invincibility" \notin DOMAIN last.mid.active_upgrades) => game_over

\* a shield used up on a platform that is deadly and breakable
C4_Witness ==
  /\ last.called
  /\ last.outcome = "shield"
  /\ last.pre_platforms[last.target].breakable

\* C5: every call of Player.update lowers each timed upgrade's remaining
\* duration by exactly 1, and the entry goes in exactly the tick in which it
\* reaches 0; update adds no entry.
C5_TimersCountDown ==
  last.called =>
     \A n \in TimedUpgrades :
        LET before == last.pre.active_upgrades
            after == player.active_upgrades
        IN  IF n \in DOMAIN before
            THEN IF before[n] - 1 = 0
                 THEN n \notin DOMAIN after
                 ELSE n \in DOMAIN after /\ after[n] = before[n] - 1
            ELSE n \notin DOMAIN after

\* a tick in which the player dies on a deadly platform while one timer runs
\* out and another goes on
C5_Witness ==
  /\ last.called
  /\ last.outcome = "deadly_death"
  /\ \E n \in DOMAIN last.pre.active_upgrades : n \notin DOMAIN player.active_upgrades
  /\ \E n \in DOMAIN last.pre.active_upgrades : n \in DOMAIN player.active_upgrades

\* C8: a fall_time above 210 makes update return died in that tick;
\* fall_time grows by exactly 1 in a tick without a landing, and only a jump
\* impulse sets it back to 0.
C8_FallTime ==
  last.called =>
     /\ player.fall_time > FALL_TIME_LIMIT => game_over
     /\ last.outcome = "none" => player.fall_time = last.pre.fall_time + 1
     /\ last.outcome \in JumpOutcomes => player.fall_time = 0
     /\ player.fall_time <= last.pre.fall_time =>
           \/ last.outcome \in JumpOutcomes /\ player.vel_y = PLAYER_JUMP * last.jump_mult
           \/ last.outcome = "deadly_death" /\ player.fall_time = last.pre.fall_time

\* the 211th tick in the air, on screen
C8_Witness ==
  /\ last.called
  /\ last.pre.fall_time = FALL_TIME_LIMIT
  /\ player.fall_time = FALL_TIME_LIMIT + 1
  /\ player.rect_y <= SCREEN_HEIGHT + FALL_MARGIN
  /\ game_over

\* C22: a descending player whose landing platform is deadly, with
\* Invincibility among the upgrades and no shield, ends the tick as on a
\* Normal platform at the same place, the upgrades being what the tick's
\* countdown left; with the shield as well, the shield goes and the upgrades
\* are what the countdown left.
C22_InvincibleLanding ==
  (/\ last.called
   /\ last.mid.vel_y > 0
   /\ LastFirstQualifying # 0
   /\ last.pre_platforms[LastFirstQualifying].deadly
   /\ "Invincibility" \in DOMAIN last.mid.active_upgrades) =>
     LET m == get_difficulty_modifiers(score)
         normal_plats == [last.pre_platforms EXCEPT ![LastFirstQualifying].deadly = FALSE,
                                                    ![LastFirstQualifying].breakable = FALSE]
         normal == update([last.pre EXCEPT !.shield_active = FALSE], normal_plats,
                          m.gravity_mult, m.jump_mult)
     IN  /\ last.target = LastFirstQualifying
         /\ last.outcome = IF last.pre.shield_active THEN "shield" ELSE "invincible"
         /\ normal.outcome = "landed"
         /\ player = normal.self
         /\ ~player.shield_active
         /\ player.active_upgrades = DecreaseTimers(last.pre.active_upgrades)
         /\ "Invincibility" \in DOMAIN player.active_upgrades
         /\ platforms = last.pre_platforms
         /\ ~game_over

\* an invincible landing on a deadly platform, without a shield
C22_Witness ==
  /\ last.called
  /\ last.outcome = "invincible"
  /\ ~last.pre.shield_active
  /\ last.pre.active_upgrades["Invincibility"] = 2
  /\ player.active_upgrades["Invincibility"] = 1

\* C24: after a call of update that did not end in a deadly-platform death
\* the player's rect is within the screen horizontally: a move that went over
\* an edge is put back on that edge; and such a move does not make update
\* return died, which then is due to the fall timer or the fall below the
\* screen alone.
C24_HorizontalClamp ==
  (last.called /\ last.outcome # "deadly_death") =>
     /\ player.rect_x >= 0
     /\ player.rect_x + PLAYER_WIDTH <= SCREEN_WIDTH
     /\ last.mid.rect_x < 0 => player.rect_x = 0
     /\ last.mid.rect_x + PLAYER_WIDTH > SCREEN_WIDTH => player.rect_x + PLAYER_WIDTH = SCREEN_WIDTH
     /\ (last.mid.rect_x >= 0 /\ last.mid.rect_x + PLAYER_WIDTH <= SCREEN_WIDTH) =>
           player.rect_x = last.mid.rect_x
     /\ game_over = (player.fall_time > FALL_TIME_LIMIT \/ player.rect_y > SCREEN_HEIGHT + FALL_MARGIN)

\* a move under Speed Boost that went over the right edge
C24_Witness ==
  /\ last.called
  /\ "Speed Boost" \in DOMAIN last.pre.active_upgrades
  /\ last.mid.rect_x + PLAYER_WIDTH > SCREEN_WIDTH
  /\ player.rect_x + PLAYER_WIDTH = SCREEN_WIDTH
  /\ ~game_over

\* C25: a call of update resolves at most one landing, on the first platform
\* of the hit list whose bottom edge is at or below the player's: the player
\* is snapped to that platform and given one jump impulse, the shield goes
\* only in a shield landing on it, no other platform is changed, and the
\* hit list is not looked at beyond it.
C25_OneLandingPerCall ==
  last.called =>
     /\ last.outcome = "none" <=> (last.mid.vel_y <= 0 \/ LastFirstQualifying = 0)
     /\ last.outcome = "none" => platforms = last.pre_platforms
     /\ last.outcome # "none" =>
           /\ last.target = LastFirstQualifying
           /\ LastHits[last.evaluated] = last.target
           /\ \A i \in 1..Len(platforms) : i # last.target => platforms[i] = last.pre_platforms[i]
     /\ last.outcome \in JumpOutcomes =>
           /\ player.rect_y + PLAYER_HEIGHT = last.pre_platforms[last.target].y
           /\ player.vel_y = PLAYER_JUMP * last.jump_mult
     /\ Len(platforms) = Len(last.pre_platforms)
     /\ Cardinality({i \in 1..Len(platforms) : platforms[i].will_break}) <= 1
     /\ player.shield_active # last.pre.shield_active => last.outcome = "shield"

\* a landing with a second platform behind the resolved one in the hit list
\* that the player approaches from above as well, and that would break
C25_Witness ==
  /\ last.called
  /\ last.outcome = "landed"
  /\ \E i \in LastQualifying :
        /\ LastHits[i] # last.target
        /\ last.pre_platforms[LastHits[i]].breakable
        /\ ~platforms[LastHits[i]].will_break

\* The last update call's move took the player's bottom edge from at or above
\* the top of platform i to below it, the player overlapping the platform
\* horizontally after the move
MovedThroughTop(i) ==
  LET plat == last.pre_platforms[i]
  IN  /\ Bottom(last.pre) <= plat.y
      /\ Bottom(last.mid) > plat.y
      /\ last.mid.rect_x < plat.x + plat.w
      /\ plat.x < last.mid.rect_x + PLAYER_WIDTH

\* C29: a call of update whose move takes the player's bottom edge through
\* the top of a platform it overlaps horizontally resolves a landing or a
\* deadly death, at every speed the player can have
C29_NoTunnelling ==
  (last.called /\ \E i \in 1..Len(last.pre_platforms) : MovedThroughTop(i)) =>
     last.outcome # "none"

----------------------------------------------------------------------------
(* get_difficulty_modifiers applied to every score up to MaxScore          *)

MaxScore == 14600

PlayStart ==
  /\ player = NewPlayer(SCREEN_WIDTH \div 2, SCREEN_HEIGHT \div 2)
  /\ platforms = <<Ground>>
  /\ orbs = << >>
  /\ score = 0
  /\ mods = NoMods
  /\ game_over = FALSE
  /\ ticks = 0
  /\ last = NoCall

InitScale ==
  /\ mode = "scale"
  /\ player = NewPlayer(SCREEN_WIDTH \div 2, SCREEN_HEIGHT \div 2)
  /\ platforms = <<Ground>>
  /\ orbs = << >>
  /\ score \in 0..MaxScore
  /\ mods = NoMods
  /\ game_over = FALSE
  /\ ticks = 0
  /\ last = NoCall
  /\ GenStart
  /\ HsStart
  /\ LoopStart

\* main, line 554: the call of get_difficulty_modifiers(score)
ScaleCall ==
  /\ mode = "scale"
  /\ mods.score # score
  /\ mods' = Modifiers(score)
  /\ UNCHANGED <<mode, player, platforms, orbs, score, game_over, ticks, last, genVars, hsVars, loopVars>>

NextScale == ScaleCall

SpecScale == InitScale /\ [][NextScale]_vars

\* C6: get_difficulty_modifiers(0) = (1.0, 1.0, 1.0, 0),
\* get_difficulty_modifiers(500) = (1.05, 0.98, 1.03, 1), the level is
\* floor(score / 500), and jump_mult is never below 0.85.
C6_ScaleValues ==
  mods.score >= 0 =>
     /\ mods.score = 0 =>
           <<mods.gravity_mult, mods.jump_mult, mods.gap_mult, mods.difficulty_level>> = <<1000, 1000, 1000, 0>>
     /\ mods.score = 500 =>
           <<mods.gravity_mult, mods.jump_mult, mods.gap_mult, mods.difficulty_level>> = <<1050, 980, 1030, 1>>
     /\ mods.difficulty_level * 500 <= mods.score
     /\ mods.score < (mods.difficulty_level + 1) * 500
     /\ mods.jump_mult >= 850

\* a score at which 1 - 0.02 * level is already below the floor
C6_Witness ==
  /\ mods.score = 4000
  /\ mods.difficulty_level = 8
  /\ mods.jump_mult = 850

\* The scores at the two edges of every level up to that of s
LevelEdges(s) ==
  { k * SCORE_PER_DIFFICULTY : k \in 0..(s \div SCORE_PER_DIFFICULTY) }
    \cup { k * SCORE_PER_DIFFICULTY - 1 : k \in 1..(s \div SCORE_PER_DIFFICULTY) }

\* C27: for scores a <= b the level, gravity_mult and gap_mult at a are at
\* most those at b, and jump_mult at a is at least that at b.  (The
\* modifiers depend on the level alone, so a runs over the edges of the
\* levels up to b, and over b - 1.)
C27_Monotonic ==
  mods.score >= 0 =>
    \A a \in { x \in LevelEdges(mods.score) \cup {mods.score - 1, mods.score} : 0 <= x /\ x <= mods.score } :
      LET ma == get_difficulty_modifiers(a)
      IN  /\ ma.difficulty_level <= mods.difficulty_level
          /\ ma.gravity_mult <= mods.gravity_mult
          /\ ma.gap_mult <= mods.gap_mult
          /\ ma.jump_mult >= mods.jump_mult

\* The modifiers of a score past the floor of jump_mult, compared with all
\* levels below it
C27_Witness ==
  /\ mods.score = 9 * SCORE_PER_DIFFICULTY
  /\ mods.jump_mult = 850
  /\ mods.gravity_mult > get_difficulty_modifiers(8 * SCORE_PER_DIFFICULTY).gravity_mult
  /\ mods.jump_mult = get_difficulty_modifiers(8 * SCORE_PER_DIFFICULTY).jump_mult

----------------------------------------------------------------------------
(* The platform generator of main                                          *)

\* main, lines 488-492
NUM_PLATFORMS == 13
MIN_GAP == 60
MAX_GAP == 100
MIN_HORIZONTAL_GAP == 200
\* main, line 512: the cap on platform_height
MIN_PLATFORM_HEIGHT == 100
\* main, line 581: range(5)
BATCH_SIZE == 5
\* main, lines 503 and 583: random.randint(0, SCREEN_WIDTH - 120)
X_MARGIN == 120
\* main, line 594: deadly platforms from this level on
DEADLY_LEVEL == 3

\* Values random.randint(0, SCREEN_WIDTH - 120) is taken to return: both ends
\* of the range, the middle, and two that are 200 and 199 from the middle
XChoices == {0, 312, SCREEN_WIDTH \div 2, 711, SCREEN_WIDTH - X_MARGIN}
\* Values of random.randint(min_gap, max_gap)
SeedGapChoices == {MIN_GAP, MAX_GAP}
\* Values of random.randint(0, max_gap - min_gap)
BatchRandChoices == {0, MAX_GAP - MIN_GAP}
\* What the orb roll gives: no orb, or an orb of one of these kinds
OrbChoices == {"none", "Shield"}

\* (variant: only a platform close on the right is rejected)
TooCloseOnTheRight(x, lx) == x >= lx /\ x - lx < MIN_HORIZONTAL_GAP

\* main, lines 505 and 584: the rejection test of the sampling loop
TooClose(x, lx) == Abs(x - lx) < MIN_HORIZONTAL_GAP

\* main, lines 510-513
SeedHeight(ph, gap) ==
  IF ph - gap < MIN_PLATFORM_HEIGHT THEN MIN_PLATFORM_HEIGHT ELSE ph - gap

\* main, line 589: int(min_gap + randint(0, int(max_gap - min_gap)) * gap_mult)
AdjustedGap(r, gap_mult) == (MIN_GAP * ONE + r * gap_mult) \div ONE

\* main, lines 588-590: the largest adjusted_gap a batch can make under
\* gap_mult, with random.randint(0, int(max_gap - min_gap)) at its maximum
LargestGap(gap_mult) == AdjustedGap(MAX_GAP - MIN_GAP, gap_mult)

\* Whether a rise of h pixels is within the apex of a bounce,
\* (PLAYER_JUMP * jump_mult)^2 / (2 * GRAVITY * gravity_mult), both sides
\* scaled by 10^6 * 2 * GRAVITY * gravity_mult
WithinApex(h, jump_mult, gravity_mult) ==
  h * 2 * GRAVITY_TENTHS * gravity_mult * 100 <= (PLAYER_JUMP * jump_mult) * (PLAYER_JUMP * jump_mult)

\* C21: at every level the largest gap of a batch is within the apex of an
\* unboosted bounce of that level
C21_GapWithinJump ==
  mods.score >= 0 => WithinApex(LargestGap(mods.gap_mult), mods.jump_mult, mods.gravity_mult)

\* main, line 594: random.random() < 0.08 is rolled only from level 3 on
DeadlyRolls(level) == IF level >= DEADLY_LEVEL THEN BOOLEAN ELSE {FALSE}
\* (variant: the roll is made at every level)
IsDeadlyAnyLevel(level, roll) == roll

IsDeadly(level, roll) == level >= DEADLY_LEVEL /\ roll

\* Orb.__init__
Orb(x, y, kind) == [x |-> x + 100, y |-> y - 50, upgrade |-> kind]

\* main, lines 523-524 and 598-599
SpawnOrb(os, x, y, kind, is_deadly) ==
  IF kind # "none" /\ ~is_deadly THEN Append(os, Orb(x, y, kind)) ELSE os

\* main, line 579
NeedsPlatforms == player.rect_y < highest_platform_y + SCREEN_HEIGHT

\* The generator never reads the groups it fills.  Under SpecGen the groups
\* keep the newest platform and the orbs on it, and gen_prev remembers where
\* the platform generated before it is.
Newest(seq) == IF Len(seq) <= 1 THEN seq ELSE SubSeq(seq, Len(seq), Len(seq))
Previous ==
  IF generated = 0 THEN NoPlatform
  ELSE [set |-> TRUE, x |-> platforms[Len(platforms)].x, y |-> platforms[Len(platforms)].y]
OrbsOn(os, plats) ==
  SelectSeq(os, LAMBDA o : \E i \in 1..Len(plats) : o.x = plats[i].x + 100 /\ o.y = plats[i].y - 50)

\* Scores of the runs SpecGen joins half way (level 3)
GenScoreChoices == {1500}

InitGen ==
  /\ mode = "gen"
  /\ game_over = FALSE
  /\ ticks = 0
  /\ last = NoCall
  /\ orbs = << >>
  /\ batch_left = 0
  /\ gen_prev = NoPlatform
  /\ platform_height = SCREEN_HEIGHT - 200
  /\ HsStart
  /\ \/ /\ player = NewPlayer(SCREEN_WIDTH \div 2, SCREEN_HEIGHT \div 2)
        /\ platforms = <<Ground>>
        /\ score = 0
        /\ mods = NoMods
        /\ last_x = SCREEN_WIDTH \div 2
        /\ highest_platform_y = SCREEN_HEIGHT - 200
        /\ current_difficulty = 0
        /\ generated = 0
     \/ \E s \in GenScoreChoices, lx \in XChoices :
          /\ player = NewPlayer(SCREEN_WIDTH \div 2, SCREEN_HEIGHT \div 2 - 10 * s)
          /\ score = s
          /\ mods = Modifiers(s)
          /\ last_x = lx
          /\ highest_platform_y = SCREEN_HEIGHT \div 2 - 10 * s - SCREEN_HEIGHT + 10
          /\ platforms = <<Platform(lx, highest_platform_y, PLATFORM_WIDTH, FALSE, FALSE)>>
          /\ current_difficulty = mods.difficulty_level
          /\ generated = NUM_PLATFORMS + BATCH_SIZE * (s \div 40)
  /\ LoopStart

\* main, lines 501-524: one iteration of the seeding loop
SeedPlatform ==
  /\ mode = "gen"
  /\ generated < NUM_PLATFORMS
  /\ \E x \in XChoices, gap \in SeedGapChoices, is_breakable \in BOOLEAN, orb \in OrbChoices :
       LET h == SeedHeight(platform_height, gap)
           is_deadly == FALSE
           plats == Newest(Append(platforms, Platform(x, h, PLATFORM_WIDTH, is_breakable, is_deadly)))
       IN  /\ ~TooClose(x, last_x)
           /\ last_x' = x
           /\ platform_height' = h
           /\ highest_platform_y' = h
           /\ platforms' = plats
           /\ orbs' = OrbsOn(SpawnOrb(orbs, x, h, orb, is_deadly), plats)
  /\ generated' = generated + 1
  /\ gen_prev' = Previous
  /\ UNCHANGED <<mode, player, score, mods, game_over, ticks, last, current_difficulty, batch_left, hsVars, loopVars>>

\* main, lines 579-599: one iteration of the batch loop, entered when the
\* player is within a screen height of the highest platform
BatchPlatform ==
  /\ mode = "gen"
  /\ generated >= NUM_PLATFORMS
  /\ batch_left > 0 \/ NeedsPlatforms
  /\ \E x \in XChoices, r \in BatchRandChoices, is_breakable \in BOOLEAN,
        deadly_roll \in DeadlyRolls(Modifiers(score).difficulty_level), orb \in OrbChoices :
       LET m == Modifiers(score)
           adjusted_gap == AdjustedGap(r, m.gap_mult)
           y == highest_platform_y - adjusted_gap
           is_deadly == IsDeadly(m.difficulty_level, deadly_roll)
           plats == Newest(Append(platforms, Platform(x, y, PLATFORM_WIDTH, is_breakable, is_deadly)))
       IN  /\ ~TooClose(x, last_x)
           /\ last_x' = x
           /\ highest_platform_y' = y
           /\ platforms' = plats
           /\ orbs' = OrbsOn(SpawnOrb(orbs, x, y, orb, is_deadly), plats)
           /\ mods' = m
           /\ current_difficulty' = m.difficulty_level
  /\ batch_left' = IF batch_left = 0 THEN BATCH_SIZE - 1 ELSE batch_left - 1
  /\ generated' = generated + 1
  /\ gen_prev' = Previous
  /\ UNCHANGED <<mode, player, score, game_over, ticks, last, platform_height, hsVars, loopVars>>

NextGen == SeedPlatform \/ BatchPlatform

SpecGen == InitGen /\ [][NextGen]_vars

\* The newest platform
NewestPlatform == platforms[Len(platforms)]

\* C7: two platforms generated one right after the other, in the seeding, in
\* a batch, or across the boundary between them, are at least
\* min_horizontal_gap (200) apart in x.
C7_HorizontalGap ==
  gen_prev.set => Abs(NewestPlatform.x - gen_prev.x) >= MIN_HORIZONTAL_GAP

\* the last seeded platform and the first of the first batch, exactly 200
\* apart, the new one on the left
C7_Witness ==
  /\ gen_prev.set
  /\ generated = NUM_PLATFORMS + 1
  /\ gen_prev.x - NewestPlatform.x = MIN_HORIZONTAL_GAP

\* C11: no platform the generator creates, in the seeding or in a batch at
\* any level, is both breakable and deadly.
C11_NeverBreakableAndDeadly ==
  \A i \in 1..Len(platforms) : ~(platforms[i].breakable /\ platforms[i].deadly)

\* C19: a newly generated platform, seeded or of a batch, lies at least
\* min_gap (60) above the platform generated right before it.
C19_VerticalGap ==
  gen_prev.set => gen_prev.y - NewestPlatform.y >= MIN_GAP

\* C20: every generated platform lies inside the screen horizontally:
\* x >= 0 and x + width <= SCREEN_WIDTH (stated of the platform the generator
\* has just made).
C20_InsideScreen ==
  gen_prev.set =>
     NewestPlatform.x >= 0 /\ NewestPlatform.x + NewestPlatform.w <= SCREEN_WIDTH

----------------------------------------------------------------------------
(* The high-score store: any sequence of saves and loads on any file       *)

\* The scores saved: multiples of 9 up to 9 * MaxSaved (one to three digits)
MaxSaved == 12
SavedScores == {9 * k : k \in 0..MaxSaved}

\* What high_score.json may hold when the program starts
TextChoices ==
  { << >>,
    DumpHighScore(7),
    <<"{", "}">>,
    <<"{", OTHER_KEY, ":", "1", "}">>,
    <<"{", KEY>>,
    <<"[", "]">>,
    <<"5">>,
    <<"0", "7">>,
    <<"null">>,
    <<OTHER_KEY>> }

InitPersist ==
  /\ mode = "persist"
  /\ PlayStart
  /\ GenStart
  /\ hs_file \in {NoFile} \cup [exists : {TRUE}, readable : BOOLEAN, text : TextChoices]
  /\ hs_last = NoOp
  /\ LoopStart

\* main, line 465: high_score = load_high_score()
Load ==
  /\ mode = "persist"
  /\ hs_last.raised = "none"
  /\ hs_last.op # "load"
  /\ LET r == load_high_score(hs_file)
     IN  hs_last' = [op |-> "load", arg |-> 0, wrote |-> FALSE, raised |-> r.raised, ret |-> r.ret,
                     before |-> hs_last.op, before_arg |-> hs_last.arg,
                     before_wrote |-> hs_last.wrote]
  /\ UNCHANGED <<mode, playVars, genVars, hs_file, loopVars>>

\* main, line 570: save_high_score(high_score)
Save ==
  /\ mode = "persist"
  /\ hs_last.raised = "none"
  /\ hs_last.op # "save"
  /\ \E n \in SavedScores, open_ok \in BOOLEAN :
       \E written \in {0, Len(DumpHighScore(n)) - 1, Len(DumpHighScore(n))} :
          /\ hs_file' = save_high_score(hs_file, n, open_ok, written)
          /\ hs_last' = [op |-> "save", arg |-> n,
                         wrote |-> open_ok /\ written = Len(DumpHighScore(n)),
                         raised |-> "none", ret |-> JInt(0),
                         before |-> "none", before_arg |-> 0, before_wrote |-> FALSE]
  /\ UNCHANGED <<mode, playVars, genVars, loopVars>>

NextPersist == Load \/ Save

SpecPersist == InitPersist /\ [][NextPersist]_vars

\* C9: load_high_score right after a save_high_score(s) whose write went
\* through, on a file that can be read, returns s; load_high_score with no
\* high-score file returns 0.
C9_RoundTrip ==
  hs_last.op = "load" =>
     /\ (hs_last.before = "save" /\ hs_last.before_wrote /\ hs_file.readable) =>
           (hs_last.raised = "none" /\ hs_last.ret = JInt(hs_last.before_arg))
     /\ ~hs_file.exists => (hs_last.raised = "none" /\ hs_last.ret = JInt(0))

\* a three-digit score with a zero in it, read back over a file that held
\* something else
C9_Witness ==
  /\ hs_last.op = "load"
  /\ hs_last.before = "save"
  /\ hs_last.before_wrote
  /\ hs_last.before_arg = 108
  /\ hs_last.ret = JInt(108)

\* C10: load_high_score never fails and returns 0 for every missing or
\* corrupt store (no file, unreadable, not valid JSON, valid JSON that is not
\* an object, an object without the high_score key), and a failing write of
\* save_high_score is swallowed.
C10_PersistenceNeverFatal ==
  /\ hs_last.raised = "none"
  /\ hs_last.op = "load" =>
        LET data == JsonLoad(hs_file.text)
        IN  (\/ ~hs_file.exists
             \/ ~hs_file.readable
             \/ ~data.ok
             \/ ~data.obj
             \/ data.key # KEY) => hs_last.ret = JInt(0)

----------------------------------------------------------------------------
(* main: the run set-up, the frame loop, the pause menu and the game over   *)
(* screen                                                                   *)

\* main, line 469: initial_player_y
INITIAL_PLAYER_Y == SCREEN_HEIGHT \div 2
\* Orb.__init__: a 40 x 40 rect
ORB_SIZE == 40
\* main, lines 605 and 615: + 100
PRUNE_MARGIN == 100

\* main, line 551: player.rect.centery - SCREEN_HEIGHT // 2
CameraY(p) == p.rect_y + PLAYER_HEIGHT \div 2 - SCREEN_HEIGHT \div 2

\* main, lines 560-563: the highest point reached and the score it gives
HighestY(p, highest) == IF p.rect_y < highest THEN p.rect_y ELSE highest
ScoreAfterCurrent(p, highest, s) == TruncDiv(INITIAL_PLAYER_Y - p.rect_y, 10)
ScoreAfter(p, highest, s) ==
  IF p.rect_y < highest THEN TruncDiv(INITIAL_PLAYER_Y - p.rect_y, 10) ELSE s

\* What the random calls of one generated platform return: the x accepted by
\* the sampling loop, the gap roll, the breakable, deadly and orb rolls, and
\* the kind random.choice gives the orb
Roll(x, gap, breakable, deadly, orb) ==
  [x |-> x, gap |-> gap, breakable |-> breakable, deadly |-> deadly, orb |-> orb]

\* The generator's variables
GenState(plats, os, lx, ph, hy) ==
  [platforms |-> plats, orbs |-> os, last_x |-> lx, platform_height |-> ph,
   highest_platform_y |-> hy]

\* main, lines 501-524: the seeding loop from iteration i on, rolls[i] being
\* what the random calls of iteration i return
RECURSIVE SeedLoop(_, _, _)
SeedLoop(i, g, rolls) ==
  IF i > NUM_PLATFORMS THEN g
  ELSE LET r == rolls[i]
           h == SeedHeight(g.platform_height, r.gap)
           is_deadly == FALSE
       IN  SeedLoop(i + 1,
                    GenState(Append(g.platforms, Platform(r.x, h, PLATFORM_WIDTH, r.breakable, is_deadly)),
                             SpawnOrb(g.orbs, r.x, h, r.orb, is_deadly),
                             r.x, h, h),
                    rolls)

\* main, lines 581-599: the batch loop from iteration i on
RECURSIVE BatchLoop(_, _, _, _)
BatchLoop(i, g, rolls, m) ==
  IF i > BATCH_SIZE THEN g
  ELSE LET r == rolls[i]
           y == g.highest_platform_y - AdjustedGap(r.gap, m.gap_mult)
           is_deadly == IsDeadly(m.difficulty_level, r.deadly)
       IN  BatchLoop(i + 1,
                     GenState(Append(g.platforms, Platform(r.x, y, PLATFORM_WIDTH, r.breakable, is_deadly)),
                              SpawnOrb(g.orbs, r.x, y, r.orb, is_deadly),
                              r.x, g.platform_height, y),
                     rolls, m)

\* The x values of the rolls are ones the sampling loops accept
RECURSIVE Accepted(_, _, _)
Accepted(rolls, i, lx) ==
  IF i > Len(rolls) THEN TRUE
  ELSE ~TooClose(rolls[i].x, lx) /\ Accepted(rolls, i + 1, rolls[i].x)

\* (variant: platforms are generated only once the player is above the
\* highest one)
NeedsBatchLate(p, hy) == p.rect_y < hy - SCREEN_HEIGHT

\* main, line 579
NeedsBatch(p, hy) == p.rect_y < hy + SCREEN_HEIGHT

\* main, lines 605 and 615
FarBelow(y, cam) == y > cam + SCREEN_HEIGHT + PRUNE_MARGIN

\* (variant: a platform marked to break is left in the group)
PrunePlatformsKeepBroken(plats, cam) ==
  SelectSeq(plats, LAMBDA pl : ~FarBelow(pl.y, cam))

\* main, lines 603-611
PrunePlatforms(plats, cam) ==
  SelectSeq(plats, LAMBDA pl : ~FarBelow(pl.y, cam) /\ ~pl.will_break)

\* main, lines 613-618
PruneOrbs(os, cam) == SelectSeq(os, LAMBDA o : ~FarBelow(o.y, cam))

\* pygame.sprite.spritecollide(player, orbs, False)
OrbHit(p, o) ==
  /\ p.rect_x < o.x + ORB_SIZE
  /\ o.x < p.rect_x + PLAYER_WIDTH
  /\ p.rect_y < o.y + ORB_SIZE
  /\ o.y < p.rect_y + PLAYER_HEIGHT

\* (variant: Shield is stored like the timed kinds, with its duration 0)
ApplyUpgradeUniform(p, kind) ==
  [p EXCEPT !.active_upgrades =
     (kind :> IF kind = "Shield" THEN 0 ELSE UPGRADE_DURATION) @@ @]

\* (variant: a pickup adds the duration to what is left)
ApplyUpgradeStacking(p, kind) ==
  IF kind = "Shield" THEN [p EXCEPT !.shield_active = TRUE]
  ELSE [p EXCEPT !.active_upgrades =
          (kind :> (UPGRADE_DURATION + IF Has(p, kind) THEN p.active_upgrades[kind] ELSE 0)) @@ @]

\* main, lines 624-627
ApplyUpgrade(p, kind) ==
  IF kind = "Shield" THEN [p EXCEPT !.shield_active = TRUE]
  ELSE [p EXCEPT !.active_upgrades = (kind :> UPGRADE_DURATION) @@ @]

RECURSIVE ApplyAll(_, _, _)
ApplyAll(p, hit, i) ==
  IF i > Len(hit) THEN p ELSE ApplyAll(ApplyUpgrade(p, hit[i].upgrade), hit, i + 1)

\* main, lines 621-629
CollectOrbs(p, os) ==
  LET hit == SelectSeq(os, LAMBDA o : OrbHit(p, o))
  IN  [self |-> ApplyAll(p, hit, 1),
       orbs |-> SelectSeq(os, LAMBDA o : ~OrbHit(p, o)),
       kinds |-> [i \in 1..Len(hit) |-> hit[i].upgrade]]

\* Bounds of the checked runs
MaxFrames == 18
MaxRuns == 2
MaxPauseFrames == 1

\* What the random calls of the seeding return: x alternating between two
\* columns 200 apart (the first under the player), the largest gap, the first
\* platform breakable or not, and orbs of one kind (Gravity Reduction in the
\* first case, Shield in the second) on the second and the fourth platform
SeedX(i) == IF i % 2 = 1 THEN SCREEN_WIDTH \div 2 - MIN_HORIZONTAL_GAP ELSE SCREEN_WIDTH \div 2
SeedRolls(b, kind) ==
  [i \in 1..NUM_PLATFORMS |->
     Roll(SeedX(i), MAX_GAP, b /\ i = 1, FALSE, IF i \in {2, 4} THEN kind ELSE "none")]
SeedRollChoices == { SeedRolls(TRUE, "Gravity Reduction"), SeedRolls(FALSE, "Shield") }

\* What the random calls of a batch return after last_x = lx: x alternating
\* between the same two columns, the largest gap roll, no platform breakable,
\* and the deadly roll of the first platform (what random.random() < 0.08
\* gives where it is evaluated)
BatchX(lx, i) ==
  IF (lx = SeedX(1)) = (i % 2 = 1) THEN SeedX(2) ELSE SeedX(1)
BatchRolls(lx, d) ==
  [i \in 1..BATCH_SIZE |-> Roll(BatchX(lx, i), MAX_GAP - MIN_GAP, FALSE, d /\ i = 1, "none")]
BatchRollChoices(lx) == { BatchRolls(lx, d) : d \in BOOLEAN }

\* What high_score.json holds when the program starts
GameFileChoices ==
  { NoFile,
    [exists |-> TRUE, readable |-> TRUE, text |-> DumpHighScore(108)] }

\* The keys held in a frame of the checked runs
GameKeys == {"none", "right"}

\* How a save_high_score call goes: (open_ok, all written)
SaveOutcomes == {<<TRUE, TRUE>>, <<FALSE, FALSE>>, <<TRUE, FALSE>>}

\* (variant: a pass of the pause menu's loop lets the fall timer run)
PauseFrameTicking(p) == [p EXCEPT !.fall_time = p.fall_time + 1]

\* show_pause_menu, lines 394-440: one pass of its loop draws the menu and
\* leaves the player alone
PauseFrame(p) == p

\* The variables of a run, as one value
Sim ==
  [player |-> player, platforms |-> platforms, orbs |-> orbs, score |-> score,
   mods |-> mods, game_over |-> game_over, ticks |-> ticks, last |-> last,
   last_x |-> last_x, highest_platform_y |-> highest_platform_y,
   platform_height |-> platform_height, current_difficulty |-> current_difficulty,
   generated |-> generated, gen_prev |-> gen_prev,
   highest_player_y |-> highest_player_y, camera_y |-> camera_y, frames |-> frames,
   picked |-> picked]

SetSim(st) ==
  /\ player' = st.player
  /\ platforms' = st.platforms
  /\ orbs' = st.orbs
  /\ score' = st.score
  /\ mods' = st.mods
  /\ game_over' = st.game_over
  /\ ticks' = st.ticks
  /\ last' = st.last
  /\ last_x' = st.last_x
  /\ highest_platform_y' = st.highest_platform_y
  /\ platform_height' = st.platform_height
  /\ current_difficulty' = st.current_difficulty
  /\ generated' = st.generated
  /\ gen_prev' = st.gen_prev
  /\ highest_player_y' = st.highest_player_y
  /\ camera_y' = st.camera_y
  /\ frames' = st.frames
  /\ picked' = st.picked
  /\ batch_left' = 0

\* main, lines 466-524: the run as its set-up leaves it, rolls being what the
\* random calls of the seeding return
NewRun(rolls) ==
  LET seeded == SeedLoop(1, GenState(<<Ground>>, << >>, SCREEN_WIDTH \div 2,
                                     SCREEN_HEIGHT - 200, SCREEN_HEIGHT - 200), rolls)
  IN  [player |-> NewPlayer(SCREEN_WIDTH \div 2, SCREEN_HEIGHT \div 2),
       platforms |-> seeded.platforms, orbs |-> seeded.orbs, score |-> 0,
       mods |-> NoMods, game_over |-> FALSE, ticks |-> 0, last |-> NoCall,
       last_x |-> seeded.last_x, highest_platform_y |-> seeded.highest_platform_y,
       platform_height |-> seeded.platform_height, current_difficulty |-> 0,
       generated |-> NUM_PLATFORMS, gen_prev |-> NoPlatform,
       highest_player_y |-> INITIAL_PLAYER_Y, camera_y |-> 0, frames |-> 0,
       picked |-> NoPick]

\* main, lines 546-563: input, camera, modifiers, Player.update and the score
FrameUpdate(st, keys) ==
  LET p == handle_input(st.player, keys)
      m == Modifiers(st.score)
      r == update(p, st.platforms, m.gravity_mult, m.jump_mult)
  IN  [st EXCEPT
         !.player = r.self,
         !.platforms = r.platforms,
         !.score = ScoreAfter(r.self, st.highest_player_y, st.score),
         !.highest_player_y = HighestY(r.self, st.highest_player_y),
         !.mods = m,
         !.current_difficulty = m.difficulty_level,
         !.camera_y = CameraY(p),
         !.game_over = r.died,
         !.ticks = st.ticks + 1,
         !.frames = st.frames + 1,
         !.last = [called |-> TRUE, pre |-> p, pre_platforms |-> st.platforms,
                   mid |-> r.mid, jump_mult |-> r.jump_mult, outcome |-> r.outcome,
                   target |-> r.target, evaluated |-> r.evaluated, died |-> r.died]]

\* main, line 579, after the frame's update
BatchDue(st) == NeedsBatch(st.player, st.highest_platform_y)

\* main, lines 578-629: the rest of the frame: the batch (rolls being what its
\* random calls return), the pruning and the orb collection
FrameRest(st, rolls) ==
  LET g0 == GenState(st.platforms, st.orbs, st.last_x, st.platform_height, st.highest_platform_y)
      g == IF BatchDue(st) THEN BatchLoop(1, g0, rolls, st.mods) ELSE g0
      made == g.platforms
      pruned == PruneOrbs(g.orbs, st.camera_y)
      c == CollectOrbs(st.player, pruned)
  IN  [st EXCEPT
         !.player = c.self,
         !.platforms = PrunePlatforms(made, st.camera_y),
         !.orbs = c.orbs,
         !.last_x = g.last_x,
         !.highest_platform_y = g.highest_platform_y,
         !.generated = IF BatchDue(st) THEN st.generated + BATCH_SIZE ELSE st.generated,
         !.gen_prev = IF BatchDue(st)
                      THEN [set |-> TRUE, x |-> made[Len(made) - 1].x, y |-> made[Len(made) - 1].y]
                      ELSE st.gen_prev,
         !.picked = [pre |-> st.player, kinds |-> c.kinds, pre_orbs |-> pruned]]

NoRolls == [i \in 1..BATCH_SIZE |-> Roll(0, 0, FALSE, FALSE, "none")]

\* A run after n frames with the same keys held and no deadly roll coming
\* out true
RECURSIVE Played(_, _, _)
Played(st, n, keys) ==
  IF n = 0 THEN st
  ELSE IF n = 1
  THEN LET u == FrameUpdate(st, keys)
       IN  FrameRest(u, BatchRolls(u.last_x, FALSE))
  ELSE LET half == Played(st, n \div 2, keys)
       IN  IF half.frames > 0 THEN Played(half, n - n \div 2, keys) ELSE st

\* main, line 465, and the set-up after it.  load_high_score may raise, which
\* ends the program with a traceback.
RunInit(rolls) ==
  LET loaded == load_high_score(hs_file)
  IN  /\ Accepted(rolls, 1, SCREEN_WIDTH \div 2)
      /\ hs_last' = [op |-> "load", arg |-> 0, wrote |-> FALSE, raised |-> loaded.raised,
                     ret |-> loaded.ret, before |-> hs_last.op, before_arg |-> hs_last.arg,
                     before_wrote |-> hs_last.wrote]
      /\ IF loaded.raised # "none"
         THEN /\ phase' = "crashed"
              /\ UNCHANGED <<playVars, genVars, high_score, highest_player_y, camera_y,
                             frames, runs, pause_frames, picked, over>>
         ELSE /\ phase' = "running"
              /\ high_score' = loaded.ret
              /\ SetSim(NewRun(rolls))
              /\ runs' = runs + 1
              /\ pause_frames' = 0
              /\ over' = NoOver
      /\ UNCHANGED <<mode, hs_file>>

\* pygame.quit(); sys.exit(): nothing of the run is left, the file stays
Exit ==
  /\ phase' = "exited"
  /\ SetSim(NewRun([i \in 1..NUM_PLATFORMS |-> Roll(SeedX(i), MAX_GAP, FALSE, FALSE, "none")]))
  /\ high_score' = JInt(0)
  /\ pause_frames' = 0
  /\ over' = NoOver
  /\ UNCHANGED <<mode, hsVars, runs>>

\* (variant: the score is saved at every game over)
NewHighScoreAlways(sc, h) == TRUE

\* main, line 567
NewHighScore(sc, h) == sc > h

\* main, lines 566-571: the game over check of a frame in which update
\* returned True.  Comparing the score with a high score that is not a number
\* raises, which ends the program.
GameOverCheck(sc, restart) ==
  IF high_score.t # "int"
  THEN /\ phase' = "crashed"
       /\ UNCHANGED <<high_score, hsVars, over>>
  ELSE IF NewHighScore(sc, high_score.v)
  THEN \E outcome \in SaveOutcomes :
          LET text == DumpHighScore(sc)
              written == IF outcome[2] THEN Len(text) ELSE Len(text) - 1
          IN  /\ high_score' = JInt(sc)
              /\ hs_file' = save_high_score(hs_file, sc, outcome[1], written)
              /\ hs_last' = [op |-> "save", arg |-> sc, wrote |-> outcome[1] /\ outcome[2],
                             raised |-> "none", ret |-> JInt(0),
                             before |-> "none", before_arg |-> 0, before_wrote |-> FALSE]
              /\ over' = [set |-> TRUE, h |-> high_score.v, s |-> sc, attempted |-> TRUE,
                          wrote |-> outcome[1] /\ outcome[2], restart |-> restart]
              /\ phase' = "game_over_screen"
  ELSE /\ over' = [set |-> TRUE, h |-> high_score.v, s |-> sc, attempted |-> FALSE,
                   wrote |-> FALSE, restart |-> restart]
       /\ phase' = "game_over_screen"
       /\ UNCHANGED <<high_score, hsVars>>

\* main, lines 546-629: one pass of the frame loop after its events.  With
\* restart set (running = False, line 543) the pass is still made to its end,
\* and the next run is set up after it.  over.restart records that the
\* game-over check of lines 565-576 was made in such a pass.
RunFrame(restart) ==
  /\ frames < MaxFrames
  /\ \E keys \in GameKeys :
     \E u \in {FrameUpdate(Sim, keys)} :
       IF u.game_over
       THEN /\ GameOverCheck(u.score, restart)
            /\ SetSim(u)
            /\ pause_frames' = 0
            /\ UNCHANGED <<mode, runs>>
       ELSE IF restart
       THEN /\ runs < MaxRuns
            /\ \E rolls \in SeedRollChoices : RunInit(rolls)
       ELSE \E rolls \in IF BatchDue(u) THEN BatchRollChoices(u.last_x) ELSE {NoRolls} :
               /\ BatchDue(u) => Accepted(rolls, 1, u.last_x)
               /\ SetSim(FrameRest(u, rolls))
               /\ phase' = "running"
               /\ pause_frames' = 0
               /\ UNCHANGED <<mode, hsVars, high_score, runs, over>>

\* main, line 456: the start screen is left with ENTER or SPACE
StartGame ==
  /\ mode = "game"
  /\ phase = "start"
  /\ \E rolls \in SeedRollChoices : RunInit(rolls)

\* main, lines 457-459
QuitStart ==
  /\ mode = "game"
  /\ phase = "start"
  /\ Exit

\* main, lines 528-629: a frame without a pause
Frame ==
  /\ mode = "game"
  /\ phase = "running"
  /\ RunFrame(FALSE)

\* main, lines 536-538: ESC opens the pause menu before the frame goes on
PressEscape ==
  /\ mode = "game"
  /\ phase = "running"
  /\ frames < MaxFrames
  /\ phase' = "paused"
  /\ pause_frames' = 0
  /\ UNCHANGED <<mode, playVars, genVars, hsVars, high_score, highest_player_y, camera_y,
                 frames, runs, picked, over>>

\* show_pause_menu, lines 394-440: a pass of the menu's loop without a key
PauseMenuFrame ==
  /\ mode = "game"
  /\ phase = "paused"
  /\ pause_frames < MaxPauseFrames
  /\ pause_frames' = pause_frames + 1
  /\ player' = PauseFrame(player)
  /\ UNCHANGED <<mode, platforms, orbs, score, mods, game_over, ticks, last, genVars, hsVars,
                 phase, high_score, highest_player_y, camera_y, frames, runs, picked, over>>

\* show_pause_menu returns 'resume': the frame goes on
Resume ==
  /\ mode = "game"
  /\ phase = "paused"
  /\ RunFrame(FALSE)

\* show_pause_menu returns 'restart' (lines 542-544)
RestartFromPause ==
  /\ mode = "game"
  /\ phase = "paused"
  /\ RunFrame(TRUE)

\* show_pause_menu returns 'quit' (lines 539-541)
QuitFromPause ==
  /\ mode = "game"
  /\ phase = "paused"
  /\ Exit

\* (variant: after the game over screen the frame loop goes on with the run
\* that is over)
RetryResuming ==
  /\ mode = "game"
  /\ phase = "game_over_screen"
  /\ phase' = "running"
  /\ UNCHANGED <<mode, playVars, genVars, hsVars, high_score, highest_player_y,
                 camera_y, frames, runs, pause_frames, picked, over>>

\* show_game_over_screen returns True (lines 572-573): the dying frame is made
\* to its end on the groups of the run that is over, and the next run is set up
Retry ==
  /\ mode = "game"
  /\ phase = "game_over_screen"
  /\ runs < MaxRuns
  /\ \E rolls \in SeedRollChoices : RunInit(rolls)

\* show_game_over_screen returns False (lines 574-576)
QuitGameOver ==
  /\ mode = "game"
  /\ phase = "game_over_screen"
  /\ Exit

IsSim(st) ==
  /\ player = st.player
  /\ platforms = st.platforms
  /\ orbs = st.orbs
  /\ score = st.score
  /\ mods = st.mods
  /\ game_over = st.game_over
  /\ ticks = st.ticks
  /\ last = st.last
  /\ last_x = st.last_x
  /\ highest_platform_y = st.highest_platform_y
  /\ platform_height = st.platform_height
  /\ current_difficulty = st.current_difficulty
  /\ generated = st.generated
  /\ gen_prev = st.gen_prev
  /\ highest_player_y = st.highest_player_y
  /\ camera_y = st.camera_y
  /\ frames = st.frames
  /\ picked = st.picked
  /\ batch_left = 0

\* A run joined after n frames: the frame counters of the checked run start
\* there
Joined(st) == [st EXCEPT !.frames = 0, !.ticks = 0]

\* The first run, seeded without a breakable platform and with Shield orbs,
\* after 117 frames with the right key held: the player has bounced off the
\* first seeded platform, the ground has been pruned, and the player is
\* falling past the right end of the platforms, four frames from the margin
\* below the screen
FallingRun == Played(NewRun(SeedRolls(FALSE, "Shield")), 117, "right")

\* A run far up, at score s0, the player having just bounced off a platform
\* `below` pixels under the highest point reached.  The group holds the chain
\* of platforms a generator at this level has made with the largest gap roll:
\* two below the player's platform (those further down are pruned), and ten
\* above it up to highest_platform_y.  The sixth of the chain is deadly if the
\* level allows deadly platforms.
HighLanding(s0, below) ==
  LET CHAIN_LENGTH == 13
      m == Modifiers(s0)
      gap == AdjustedGap(MAX_GAP - MIN_GAP, m.gap_mult)
      hy == INITIAL_PLAYER_Y - 10 * s0
      y0 == hy + below + PLAYER_HEIGHT
      chain == [j \in 1..CHAIN_LENGTH |->
                  Platform(SeedX(j), y0 + gap * (3 - j), PLATFORM_WIDTH, FALSE,
                           m.difficulty_level >= DEADLY_LEVEL /\ j = 6)]
      p == Bounce(NewPlayer(SCREEN_WIDTH \div 2, hy + below), chain[3], m.jump_mult)
  IN  [player |-> p, platforms |-> chain, orbs |-> << >>, score |-> s0,
       mods |-> m, game_over |-> FALSE, ticks |-> 0, last |-> NoCall,
       last_x |-> chain[CHAIN_LENGTH].x, highest_platform_y |-> chain[CHAIN_LENGTH].y,
       platform_height |-> MIN_PLATFORM_HEIGHT, current_difficulty |-> m.difficulty_level,
       generated |-> NUM_PLATFORMS + BATCH_SIZE * (s0 \div 50),
       gen_prev |-> [set |-> TRUE, x |-> chain[CHAIN_LENGTH - 1].x, y |-> chain[CHAIN_LENGTH - 1].y],
       highest_player_y |-> hy, camera_y |-> CameraY(p), frames |-> 0,
       picked |-> NoPick]

\* The runs joined on their way: the falling first run, a run of level 2 about
\* to pass score 1500 in the frame that adds a batch, a run of level 3, 40
\* frames after its bounce, coming down on the deadly platform of its chain,
\* and the same run with the right key held, 207 frames after its bounce,
\* falling past the right end of every platform.  Two of them are also
\* joined late in an upgrade picked up 897 and 895 frames before: the run of
\* level 2 with 3 ticks of Jump Boost left, and the run coming down on the
\* deadly platform with 5 ticks of Invincibility left.
WithUpgrades(st, u) == [st EXCEPT !.player.active_upgrades = u]

JoinedRuns ==
  { Joined(FallingRun),
    HighLanding(1495, 115),
    WithUpgrades(HighLanding(1495, 115), "Jump Boost" :> 3),
    Joined(Played(HighLanding(1700, 150), 40, "none")),
    WithUpgrades(Joined(Played(HighLanding(1700, 150), 40, "none")), "Invincibility" :> 5),
    Joined(Played(HighLanding(1700, 150), 207, "right")) }

\* A run in progress: the high score is the one loaded when it began
InRun ==
  /\ phase = "running"
  /\ runs = 1
  /\ hs_file \in GameFileChoices
  /\ high_score = load_high_score(hs_file).ret
  /\ \E st \in JoinedRuns : IsSim(st)

\* C12: while the score of a run is below 1500 its platform group holds no
\* deadly platform, in the first run and in every run after a retry or a
\* restart
C12_NoDeadlyBelowLevelThree ==
  score < DEADLY_LEVEL * SCORE_PER_DIFFICULTY =>
    \A i \in 1..Len(platforms) : ~platforms[i].deadly

\* A second run, begun after a run that died past score 1500, has had a batch
\* added below that score
C12_Witness ==
  /\ phase = "running"
  /\ runs = 2
  /\ high_score.t = "int" /\ high_score.v >= DEADLY_LEVEL * SCORE_PER_DIFFICULTY
  /\ score < DEADLY_LEVEL * SCORE_PER_DIFFICULTY
  /\ generated > NUM_PLATFORMS

\* C13: at the end of every frame of a run the player's top edge is below the
\* highest generated platform
C13_BelowTheFrontier ==
  phase \in {"running", "paused"} => player.rect_y > highest_platform_y

\* The player of a first run has climbed past the height of the topmost
\* seeded platform, batches having moved the frontier up before
C13_Witness ==
  /\ phase = "running"
  /\ frames > 0
  /\ score < SCORE_PER_DIFFICULTY
  /\ generated > NUM_PLATFORMS
  /\ player.rect_y < MIN_PLATFORM_HEIGHT

\* The runs the set-up makes
FreshRuns == { NewRun(rolls) : rolls \in SeedRollChoices }

\* A run as the set-up leaves it: nothing of an earlier run but the high score
\* read back from the file
FreshRun ==
  /\ player = [rect_x |-> SCREEN_WIDTH \div 2, rect_y |-> SCREEN_HEIGHT \div 2,
               vel_x |-> 0, vel_y |-> 0, on_ground |-> TRUE, fall_time |-> 0,
               active_upgrades |-> << >>, shield_active |-> FALSE]
  /\ score = 0
  /\ highest_player_y = player.rect_y
  /\ current_difficulty = 0
  /\ ~game_over
  /\ ticks = 0 /\ frames = 0
  /\ ~last.called
  /\ Len(platforms) = NUM_PLATFORMS + 1
  /\ platforms[1] = Ground
  /\ \A i \in 1..Len(platforms) : ~platforms[i].deadly /\ ~platforms[i].will_break
  /\ \E st \in FreshRuns : platforms = st.platforms /\ orbs = st.orbs
  /\ generated = NUM_PLATFORMS
  /\ high_score = load_high_score(hs_file).ret

\* C14: an update call that returns died is the last one of its run: the
\* game over screen comes up with the final score, and from there the program
\* either sets up a fresh run (retry) or ends (quit)
C14_DeathIsTerminal ==
  [][ /\ last'.died => phase' \in {"game_over_screen", "crashed"}
      /\ (phase' = "game_over_screen" /\ phase # "game_over_screen") =>
            last'.called /\ last'.died /\ over'.set /\ over'.s = score'
      /\ phase = "game_over_screen" =>
            \/ phase' = "exited"
            \/ phase' = "running" /\ FreshRun' /\ runs' = runs + 1 ]_vars

\* A run set up by a retry: its high score is the one the game over of the
\* run before has written
C14_Witness ==
  /\ phase = "running"
  /\ runs = 2
  /\ FreshRun
  /\ hs_last.op = "load" /\ hs_last.before = "save" /\ hs_last.before_wrote
  /\ high_score.v > 0

\* What load_high_score would return from the file as it is
Persisted == load_high_score(hs_file).ret

\* C15: a run that ends by death with score s, begun with the loaded high
\* score h, leaves max(h, s) in the file: the file is written exactly when
\* s > h, and no step lowers what the file holds.  (Stated for writes that go
\* through; a write that fails is swallowed and leaves the old or a cut-off
\* file.)
C15_HighScoreIsMax ==
  [][ /\ (over'.set /\ ~over.set /\ (over'.attempted => over'.wrote)) =>
            /\ over'.h = Persisted.v
            /\ over'.attempted <=> over'.s > over'.h
            /\ (hs_file' # hs_file) <=> over'.s > over'.h
            /\ Persisted' = JInt(IF over'.s > over'.h THEN over'.s ELSE over'.h)
      /\ (hs_last'.op = "save" => hs_last'.wrote) => Persisted'.v >= Persisted.v ]_vars

\* A game over with a score above the high score read from an existing file
C15_Witness ==
  /\ phase = "game_over_screen"
  /\ over.set /\ over.attempted /\ over.wrote
  /\ over.h > 0 /\ over.s > over.h
  /\ Persisted = JInt(over.s)

\* C16: opening the pause menu and every pass of the menu's loop leave
\* player, score, platforms and orbs as the last frame left them, so they are
\* the same when resume is chosen, whatever the number of passes
C16_PauseFreezes ==
  [][ phase' = "paused" =>
        UNCHANGED <<player, score, platforms, orbs, highest_player_y, ticks,
                    highest_platform_y, generated>> ]_vars

\* The menu's loop has made a pass while the player is in the air with a
\* timed upgrade running
C16_Witness ==
  /\ phase = "paused"
  /\ pause_frames > 0
  /\ ~player.on_ground
  /\ player.fall_time > 0
  /\ DOMAIN player.active_upgrades # {}

\* C17: after a frame that collected orbs, every timed kind collected stands
\* at exactly 900, whatever was left of it before; a Shield orb has set
\* shield_active and made no entry in active_upgrades; nothing else of the
\* player has changed; and the collected orbs are gone from the group
C17_PickupSetsDuration ==
  (phase \in {"running", "paused"} /\ Len(picked.kinds) > 0) =>
    LET kinds == { picked.kinds[i] : i \in 1..Len(picked.kinds) }
        timed == kinds \ {"Shield"}
    IN  /\ \A k \in timed : Has(player, k) /\ player.active_upgrades[k] = UPGRADE_DURATION
        /\ DOMAIN player.active_upgrades = DOMAIN picked.pre.active_upgrades \cup timed
        /\ \A k \in DOMAIN picked.pre.active_upgrades \ timed :
              player.active_upgrades[k] = picked.pre.active_upgrades[k]
        /\ player.shield_active = (picked.pre.shield_active \/ "Shield" \in kinds)
        /\ [player EXCEPT !.active_upgrades = << >>, !.shield_active = FALSE]
             = [picked.pre EXCEPT !.active_upgrades = << >>, !.shield_active = FALSE]
        /\ Len(orbs) = Len(picked.pre_orbs) - Len(picked.kinds)
        /\ \A i \in 1..Len(orbs) : ~OrbHit(picked.pre, orbs[i])

\* An orb of a kind that is still running has been collected
C17_Witness ==
  /\ phase = "running"
  /\ Len(picked.kinds) > 0
  /\ picked.kinds[1] # "Shield"
  /\ Has(picked.pre, picked.kinds[1])
  /\ picked.pre.active_upgrades[picked.kinds[1]] < UPGRADE_DURATION
  /\ picked.pre.active_upgrades[picked.kinds[1]] > 0

\* The platform the last update call resolved a landing on
LandedOn == last.pre_platforms[last.target]

UnprotectedDeadlyLanding ==
  /\ last.mid.vel_y > 0
  /\ LastFirstQualifying # 0
  /\ last.pre_platforms[LastFirstQualifying].deadly
  /\ ~last.mid.shield_active
  /\ "Invincibility" \notin DOMAIN last.mid.active_upgrades

\* C23: a call of update returns died exactly when it resolved an unprotected
\* landing on a deadly platform, or left fall_time above 210, or left the
\* player's top edge more than 200 below the screen height; a death brings up
\* the game over screen, and from there only the user's quit ends the program
C23_DeathConditions ==
  [][ /\ last'.called =>
            /\ last'.died <=> \/ UnprotectedDeadlyLanding'
                              \/ player'.fall_time > FALL_TIME_LIMIT
                              \/ player'.rect_y > SCREEN_HEIGHT + FALL_MARGIN
            /\ game_over' = last'.died
            /\ last'.died => phase' = "game_over_screen"
      /\ phase = "game_over_screen" => phase' \in {"running", "exited"}
      /\ (phase \in {"running", "paused"} /\ phase' = "exited") => ~last'.called ]_vars

\* A run has ended by the fall timer, high above the bottom of the screen
C23_Witness ==
  /\ phase = "game_over_screen"
  /\ last.died
  /\ player.fall_time > FALL_TIME_LIMIT
  /\ player.rect_y <= SCREEN_HEIGHT + FALL_MARGIN
  /\ ~UnprotectedDeadlyLanding

\* C26: between frames every entry of active_upgrades is one of the timed
\* kinds with between 1 and 900 ticks left; Shield is never an entry
C26_DurationsInRange ==
  \A n \in DOMAIN player.active_upgrades :
    /\ n \in TimedUpgrades
    /\ player.active_upgrades[n] >= 1
    /\ player.active_upgrades[n] <= UPGRADE_DURATION

\* A frame's update has taken an entry with one tick left out of
\* active_upgrades, and the run goes on
C26_Witness ==
  /\ phase = "running"
  /\ last.called
  /\ \E n \in DOMAIN last.pre.active_upgrades :
        /\ last.pre.active_upgrades[n] = 1
        /\ n \notin DOMAIN player.active_upgrades

\* The last update call's landing platform is deadly
DeadlyLanding ==
  /\ last.mid.vel_y > 0
  /\ LastFirstQualifying # 0
  /\ last.pre_platforms[LastFirstQualifying].deadly

\* What each timed kind does in the last update call, if it is in effect
GravityReductionApplied ==
  last.mid.vel_y = last.pre.vel_y + (GRAVITY_TENTHS * (mods.gravity_mult \div 2)) \div 10
JumpBoostApplied == last.jump_mult = (mods.jump_mult * 13) \div 10
SpeedBoostApplied ==
  last.pre.vel_x # 0 => Abs(last.mid.rect_x - last.pre.rect_x) = TruncDiv(PLAYER_SPEED * 15, 10)
InvincibilityApplied == DeadlyLanding => ~last.died

\* C28: an upgrade picked up with duration D is in effect in each of the D
\* update calls that follow, which are the calls that begin with the entry
\* still in active_upgrades (D, D - 1, ..., 1 left): in each of them Gravity
\* Reduction, Jump Boost and Speed Boost apply, and Invincibility survives a
\* deadly landing
C28_EffectiveForDuration ==
  last.called =>
     /\ Has(last.pre, "Gravity Reduction") => GravityReductionApplied
     /\ Has(last.pre, "Jump Boost") => JumpBoostApplied
     /\ Has(last.pre, "Speed Boost") => SpeedBoostApplied
     /\ Has(last.pre, "Invincibility") => InvincibilityApplied

\* The program at its start screen
\* The run's game-over check was made after its pause menu returned 'restart'
GameOverAfterRestart == over.set /\ over.restart

\* C30: once restart is chosen in the pause menu the old run is abandoned:
\* no update call of the old run ends it, no high score is written for it and
\* no game-over screen is shown for it before the new run is set up
C30_RestartAbandonsRun == ~GameOverAfterRestart

\* A step that stays within one run of main's outer loop
SameRun == runs' = runs /\ phase' # "exited"

\* C31: within a run the score and the difficulty level never decrease from
\* one frame to the next, the score is 0 when a run is set up, and the score
\* is never negative
C31_ScoreMonotonic ==
  /\ [](score >= 0)
  /\ [][ /\ SameRun => /\ score' >= score
                      /\ mods'.difficulty_level >= mods.difficulty_level
                      /\ highest_player_y' <= highest_player_y
         /\ (runs' = runs + 1 /\ phase' = "running") =>
               score' = 0 /\ highest_player_y' = INITIAL_PLAYER_Y ]_vars

\* A frame has left the player below the highest point of the run, at a score
\* past the second level edge, and the score stays where it was
C31_Witness ==
  /\ phase = "running"
  /\ frames >= 2
  /\ last.called
  /\ last.mid.vel_y > 0
  /\ player.rect_y > highest_player_y + 10
  /\ score = TruncDiv(INITIAL_PLAYER_Y - highest_player_y, 10)
  /\ score >= 2 * SCORE_PER_DIFFICULTY

AtStart ==
  /\ phase = "start"
  /\ PlayStart
  /\ GenStart
  /\ highest_player_y = INITIAL_PLAYER_Y
  /\ camera_y = 0
  /\ frames = 0
  /\ runs = 0
  /\ picked = NoPick
  /\ hs_file = NoFile
  /\ high_score = JInt(0)

Init ==
  /\ mode = "game"
  /\ hs_last = NoOp
  /\ pause_frames = 0
  /\ over = NoOver
  /\ (AtStart \/ InRun)

Next ==
  \/ StartGame
  \/ QuitStart
  \/ Frame
  \/ PressEscape
  \/ PauseMenuFrame
  \/ Resume
  \/ RestartFromPause
  \/ QuitFromPause
  \/ Retry
  \/ QuitGameOver

Spec == Init /\ [][Next]_vars

====
